---- MODULE Spec2Model ----
(***************************************************************************)
(* Loader resolution of plaster (src/src/plaster/loaders.py): get_loader,  *)
(* find_loaders and EntryPointLoaderInfo, over a working set of installed  *)
(* distributions and their entry points.                                   *)
(*                                                                         *)
(* Python strings are sequences of one-character strings, so that lower()  *)
(* and rsplit() are computed character by character.  An optional value    *)
(* (a parameter that may be None) is a sequence of length 0 (None) or 1.   *)
(***************************************************************************)
EXTENDS Integers, Sequences, FiniteSets, TLC

VARIABLES
    installed,        \* project names of the distributions in the working set
    entry_points,     \* the entry points those distributions register
    fresh,            \* history: the working set is unchanged since the last discovery query
    queries,          \* history: number of discovery queries made so far
    invocations,      \* history: number of plugin factory invocations so far
    call,             \* the last API call: operation and arguments
    matched_loaders,  \* the LoaderInfo list of the last discovery query
    raised,           \* the exception the last call raised, or NoException
    loader,           \* the Loader the last call returned (optional)
    resolved,         \* history: entry points resolved (entry_point.load()) by the last call
    invoked           \* history: factory invocations (factory, config_uri) of the last call

vars == <<installed, entry_points, fresh, queries, invocations, call,
          matched_loaders, raised, loader, resolved, invoked>>

MaxCalls == 3

None == <<>>
Some(x) == <<x>>

-----------------------------------------------------------------------------
(* Python string helpers *)

UpperCase == <<"A","B","C","D","E","F","G","H","I","J","K","L","M",
               "N","O","P","Q","R","S","T","U","V","W","X","Y","Z">>
LowerCase == <<"a","b","c","d","e","f","g","h","i","j","k","l","m",
               "n","o","p","q","r","s","t","u","v","w","x","y","z">>

\* the characters strings are made of
Alphabet ==
    {UpperCase[i] : i \in DOMAIN UpperCase} \cup {LowerCase[i] : i \in DOMAIN LowerCase}
        \cup {"+", ":", "#", ".", "-", "_"}

LowerChar ==
    [c \in Alphabet |->
        IF \E i \in DOMAIN UpperCase : UpperCase[i] = c
        THEN LowerCase[CHOOSE i \in DOMAIN UpperCase : UpperCase[i] = c]
        ELSE c]

\* str.lower()
Lower(s) == [i \in 1..Len(s) |-> LowerChar[s[i]]]

\* faulty variant of rsplit: splits only a string that holds exactly one sep
rsplit_exactly_one(s, sep) ==
    LET idx == {i \in 1..Len(s) : s[i] = sep}
    IN  IF Cardinality(idx) # 1 THEN <<s>>
        ELSE LET k == CHOOSE i \in idx : TRUE
             IN  <<SubSeq(s, 1, k - 1), SubSeq(s, k + 1, Len(s))>>

\* str.rsplit(sep, 1): split once, at the last occurrence of sep
rsplit(s, sep) ==
    LET idx == {i \in 1..Len(s) : s[i] = sep}
    IN  IF idx = {} THEN <<s>>
        ELSE LET k == CHOOSE i \in idx : \A j \in idx : j <= i
             IN  <<SubSeq(s, 1, k - 1), SubSeq(s, k + 1, Len(s))>>

\* first index of sep in s, 0 when absent
Find(s, sep) ==
    IF \E i \in 1..Len(s) : s[i] = sep
    THEN CHOOSE i \in 1..Len(s) : s[i] = sep /\ \A j \in 1..(i - 1) : s[j] # sep
    ELSE 0

-----------------------------------------------------------------------------
(* The inputs: names, schemes, URIs, protocols *)

ini == <<"i","n","i">>
INI == <<"I","N","I">>
distA == <<"d","i","s","t","A">>
distB == <<"d","i","s","t","B">>
distC == <<"d","i","s","t","C">>
DISTA == <<"D","I","S","T","A">>
plus == <<"+">>
colon == <<":">>
foo == <<"f","o","o">>

Distributions == {distA, distB, distC}

Protocols == {None, Some("wsgi")}

Schemes == { ini, INI,
             ini \o plus \o distA,
             INI \o plus \o DISTA,
             ini \o plus \o distB,
             ini \o plus \o distC,
             ini \o plus \o distB \o plus \o distC }

\* raw configuration URIs: every scheme with path foo, and one string with
\* no scheme separator
URIs == { [raw |-> s \o colon \o foo] : s \in Schemes } \cup { [raw |-> ini] }

\* faulty variant of Group: the protocol is ignored
Group_unscoped(protocol) == "plaster.loader_factory"

\* lines 118-121: the entry point group a protocol is discovered under
Group(protocol) ==
    IF protocol = None THEN "plaster.loader_factory"
    ELSE "plaster.loader_factory." \o protocol[1]

\* every entry point a distribution of the model can register, in the
\* order the working set iterates them
AllEntryPoints ==
    << [name |-> ini, group |-> "plaster.loader_factory", dist |-> distA],
       [name |-> INI, group |-> "plaster.loader_factory", dist |-> distA],
       [name |-> ini, group |-> "plaster.loader_factory", dist |-> distB],
       [name |-> INI, group |-> "plaster.loader_factory.wsgi", dist |-> distB],
       [name |-> ini \o plus \o distB, group |-> "plaster.loader_factory", dist |-> distC] >>

EntryPointsOf(d) == {AllEntryPoints[i] : i \in {j \in DOMAIN AllEntryPoints : AllEntryPoints[j].dist = d}}

-----------------------------------------------------------------------------
(* plaster.uri.parse_uri *)

IsStructured(config_uri) == "scheme" \in DOMAIN config_uri

IsValidURI(config_uri) == IsStructured(config_uri) \/ Find(config_uri.raw, ":") > 0

parse_uri(config_uri) ==
    IF IsStructured(config_uri) THEN config_uri
    ELSE LET s == config_uri.raw
             k == Find(s, ":")
             rest == SubSeq(s, k + 1, Len(s))
             h == Find(rest, "#")
         IN  [scheme |-> SubSeq(s, 1, k - 1),
              path |-> IF h = 0 THEN rest ELSE SubSeq(rest, 1, h - 1),
              fragment |-> IF h = 0 THEN None ELSE Some(SubSeq(rest, h + 1, Len(rest)))]

-----------------------------------------------------------------------------
(* pkg_resources, as find_loaders uses it *)

\* pkg_resources.get_distribution(name): the installed distributions whose
\* key (lower-cased project name) is the key of name; empty for DistributionNotFound
get_distribution(name) == {d \in installed : Lower(d) = Lower(name)}

\* distro.get_entry_map(group).values()
get_entry_map(distro, group) ==
    SelectSeq(AllEntryPoints,
              LAMBDA ep : ep \in entry_points /\ ep.dist = distro /\ ep.group = group)

\* pkg_resources.iter_entry_points(group)
iter_entry_points(group) ==
    SelectSeq(AllEntryPoints, LAMBDA ep : ep \in entry_points /\ ep.group = group)

\* entry_point.load(): the factory the entry point refers to
entry_point_load(ep) == [factory_of |-> ep]

-----------------------------------------------------------------------------
(* find_loaders *)

\* faulty variants of distro_search
distro_search_all_dists(scheme, group) ==
    LET parts == rsplit(scheme, "+")
    IN  IF Len(parts) = 2 /\ get_distribution(parts[2]) # {}
        THEN [scheme |-> parts[1],
              matched |-> SelectSeq(iter_entry_points(group),
                                    LAMBDA ep : parts[1] = Lower(ep.name))]
        ELSE [scheme |-> scheme, matched |-> <<>>]

distro_search_exactly_one(scheme, group) ==
    LET parts == rsplit_exactly_one(scheme, "+")
    IN  IF Len(parts) = 2 /\ get_distribution(parts[2]) # {}
        THEN LET distro == CHOOSE d \in get_distribution(parts[2]) : TRUE
             IN  [scheme |-> parts[1],
                  matched |-> SelectSeq(get_entry_map(distro, group),
                                        LAMBDA ep : parts[1] = Lower(ep.name))]
        ELSE [scheme |-> scheme, matched |-> <<>>]

distro_search_strip_unknown(scheme, group) ==
    LET parts == rsplit(scheme, "+")
    IN  IF Len(parts) = 2
        THEN IF get_distribution(parts[2]) # {}
             THEN LET distro == CHOOSE d \in get_distribution(parts[2]) : TRUE
                  IN  [scheme |-> parts[1],
                       matched |-> SelectSeq(get_entry_map(distro, group),
                                             LAMBDA ep : parts[1] = Lower(ep.name))]
             ELSE [scheme |-> parts[1], matched |-> <<>>]
        ELSE [scheme |-> scheme, matched |-> <<>>]

distro_search_keep_scheme(scheme, group) ==
    LET parts == rsplit(scheme, "+")
    IN  IF Len(parts) = 2 /\ get_distribution(parts[2]) # {}
        THEN LET distro == CHOOSE d \in get_distribution(parts[2]) : TRUE
                 found == SelectSeq(get_entry_map(distro, group),
                                    LAMBDA ep : parts[1] = Lower(ep.name))
             IN  [scheme |-> IF found = <<>> THEN scheme ELSE parts[1],
                  matched |-> found]
        ELSE [scheme |-> scheme, matched |-> <<>>]

\* lines 126-136: the search scoped to the distribution a '+' suffix names;
\* scheme is the lower-cased scheme.  Yields the scheme to go on with and
\* the entry points matched so far.
distro_search(scheme, group) ==
    LET parts == rsplit(scheme, "+")
    IN  IF Len(parts) = 2 /\ get_distribution(parts[2]) # {}
        THEN LET distro == CHOOSE d \in get_distribution(parts[2]) : TRUE
             IN  [scheme |-> parts[1],
                  matched |-> SelectSeq(get_entry_map(distro, group),
                                        LAMBDA ep : parts[1] = Lower(ep.name))]
        ELSE [scheme |-> scheme, matched |-> <<>>]

\* faulty variant of find_entry_points: the scheme is not lower-cased
find_entry_points_case_sensitive(scheme, protocol) ==
    LET group == Group(protocol)
        scoped == IF scheme # None
                  THEN distro_search(scheme[1], group)
                  ELSE [scheme |-> <<>>, matched |-> <<>>]
    IN  IF scoped.matched # <<>> THEN scoped.matched
        ELSE SelectSeq(iter_entry_points(group),
                       LAMBDA ep : scheme = None \/ scoped.scheme = Lower(ep.name))

\* lines 116-143: matched_entry_points of find_loaders(scheme, protocol);
\* scheme is optional
find_entry_points(scheme, protocol) ==
    LET group == Group(protocol)
        scoped == IF scheme # None
                  THEN distro_search(Lower(scheme[1]), group)
                  ELSE [scheme |-> <<>>, matched |-> <<>>]
    IN  IF scoped.matched # <<>> THEN scoped.matched
        ELSE SelectSeq(iter_entry_points(group),
                       LAMBDA ep : scheme = None \/ scoped.scheme = Lower(ep.name))

\* EntryPointLoaderInfo.__init__; id is the object's identity, loads counts
\* the entry_point.load() calls made through this object
EntryPointLoaderInfo(ep, protocol, id) ==
    [id |-> id,
     entry_point |-> ep,
     scheme |-> ep.name \o plus \o ep.dist,
     protocol |-> protocol,
     _factory |-> None,
     loads |-> 0]

\* lines 145-148: the list find_loaders returns, made by query number q
find_loaders(scheme, protocol, q) ==
    LET eps == find_entry_points(scheme, protocol)
    IN  [i \in 1..Len(eps) |->
            EntryPointLoaderInfo(eps[i], protocol, [query |-> q, index |-> i])]

-----------------------------------------------------------------------------
(* EntryPointLoaderInfo *)

\* faulty variant of factory: the entry point is resolved on every access
factory_no_memo(info) ==
    [info |-> [info EXCEPT !._factory = Some(entry_point_load(info.entry_point)),
                           !.loads = @ + 1],
     value |-> entry_point_load(info.entry_point),
     resolved |-> <<info.entry_point>>]

\* lines 159-163: the factory property.  Yields the object after the
\* access, the factory, and the entry points resolved by the access.
factory(info) ==
    IF info._factory = None
    THEN [info |-> [info EXCEPT !._factory = Some(entry_point_load(info.entry_point)),
                                !.loads = @ + 1],
          value |-> entry_point_load(info.entry_point),
          resolved |-> <<info.entry_point>>]
    ELSE [info |-> info, value |-> info._factory[1], resolved |-> <<>>]

\* lines 165-167: load(config_uri) for a valid URI; the Loader the plugin
\* factory produces is identified by the factory, its argument and the
\* number of the invocation
load(info, config_uri, serial) ==
    LET parsed == parse_uri(config_uri)
        f == factory(info)
    IN  [info |-> f.info,
         resolved |-> f.resolved,
         invoked |-> <<[factory |-> f.value, config_uri |-> parsed]>>,
         loader |-> [made_by |-> f.value, config_uri |-> parsed, serial |-> serial]]

-----------------------------------------------------------------------------
(* exceptions, as raised in loaders.py *)

NoException == [type |-> "None"]
InvalidURI(config_uri) == [type |-> "InvalidURI", uri |-> config_uri]
LoaderNotFound(scheme, protocol) ==
    [type |-> "LoaderNotFound", scheme |-> scheme, protocol |-> protocol]
MultipleLoadersFound(scheme, loaders, protocol) ==
    [type |-> "MultipleLoadersFound", scheme |-> scheme, loaders |-> loaders,
     protocol |-> protocol]

-----------------------------------------------------------------------------
(* get_loader *)

\* faulty variant of get_loader: several matches are resolved by taking the first
get_loader_first_match(config_uri, protocol, q, serial) ==
    LET parsed == parse_uri(config_uri)
        requested_scheme == parsed.scheme
        matched == find_loaders(Some(requested_scheme), protocol, q)
    IN  IF Len(matched) < 1
        THEN [matched |-> matched, queried |-> 1,
              raised |-> LoaderNotFound(requested_scheme, protocol),
              loader |-> None, resolved |-> <<>>, invoked |-> <<>>]
        ELSE LET r == load(matched[1], parsed, serial)
             IN  [matched |-> [matched EXCEPT ![1] = r.info], queried |-> 1,
                  raised |-> NoException,
                  loader |-> Some(r.loader), resolved |-> r.resolved,
                  invoked |-> r.invoked]

\* faulty variant of get_loader: LoaderNotFound carries the lower-cased scheme
get_loader_lowered_scheme(config_uri, protocol, q, serial) ==
    LET parsed == parse_uri(config_uri)
        requested_scheme == Lower(parsed.scheme)
        matched == find_loaders(Some(requested_scheme), protocol, q)
    IN  IF Len(matched) < 1
        THEN [matched |-> matched, queried |-> 1,
              raised |-> LoaderNotFound(requested_scheme, protocol),
              loader |-> None, resolved |-> <<>>, invoked |-> <<>>]
        ELSE IF Len(matched) > 1
        THEN [matched |-> matched, queried |-> 1,
              raised |-> MultipleLoadersFound(requested_scheme, matched, protocol),
              loader |-> None, resolved |-> <<>>, invoked |-> <<>>]
        ELSE LET r == load(matched[1], parsed, serial)
             IN  [matched |-> <<r.info>>, queried |-> 1, raised |-> NoException,
                  loader |-> Some(r.loader), resolved |-> r.resolved,
                  invoked |-> r.invoked]

\* faulty variant of get_loader: the loader of the previous call is kept and
\* returned again when the same URI and protocol are asked for
get_loader_cached(config_uri, protocol, q, serial) ==
    IF call.op = "get_loader" /\ call.config_uri = Some(config_uri)
       /\ call.protocol = protocol /\ loader # None
    THEN [matched |-> matched_loaders, queried |-> 0, raised |-> NoException,
          loader |-> loader, resolved |-> <<>>, invoked |-> <<>>]
    ELSE LET parsed == parse_uri(config_uri)
             requested_scheme == parsed.scheme
             matched == find_loaders(Some(requested_scheme), protocol, q)
         IN  IF Len(matched) < 1
             THEN [matched |-> matched, queried |-> 1,
                   raised |-> LoaderNotFound(requested_scheme, protocol),
                   loader |-> None, resolved |-> <<>>, invoked |-> <<>>]
             ELSE IF Len(matched) > 1
             THEN [matched |-> matched, queried |-> 1,
                   raised |-> MultipleLoadersFound(requested_scheme, matched, protocol),
                   loader |-> None, resolved |-> <<>>, invoked |-> <<>>]
             ELSE LET r == load(matched[1], parsed, serial)
                  IN  [matched |-> <<r.info>>, queried |-> 1, raised |-> NoException,
                       loader |-> Some(r.loader), resolved |-> r.resolved,
                       invoked |-> r.invoked]

\* lines 83-97: get_loader(config_uri, protocol) for a valid URI, as
\* discovery query number q and factory invocation number serial.  Yields
\* the local matched_loaders, the exception raised or the loader returned.
get_loader(config_uri, protocol, q, serial) ==
    LET parsed == parse_uri(config_uri)
        requested_scheme == parsed.scheme
        matched == find_loaders(Some(requested_scheme), protocol, q)
    IN  IF Len(matched) < 1
        THEN [matched |-> matched, queried |-> 1,
              raised |-> LoaderNotFound(requested_scheme, protocol),
              loader |-> None, resolved |-> <<>>, invoked |-> <<>>]
        ELSE IF Len(matched) > 1
        THEN [matched |-> matched, queried |-> 1,
              raised |-> MultipleLoadersFound(requested_scheme, matched, protocol),
              loader |-> None, resolved |-> <<>>, invoked |-> <<>>]
        ELSE LET r == load(matched[1], parsed, serial)
             IN  [matched |-> <<r.info>>, queried |-> 1, raised |-> NoException,
                  loader |-> Some(r.loader), resolved |-> r.resolved,
                  invoked |-> r.invoked]

-----------------------------------------------------------------------------
(* The state machine *)

NoCall == [op |-> "none", config_uri |-> None, scheme |-> None, protocol |-> None]

\* any working set: some distributions installed, each registering some of
\* its entry points; no call made yet
Init ==
    /\ installed \in SUBSET Distributions
    /\ entry_points \in SUBSET UNION {EntryPointsOf(d) : d \in installed}
    /\ fresh = TRUE
    /\ queries = 0
    /\ invocations = 0
    /\ call = NoCall
    /\ matched_loaders = <<>>
    /\ raised = NoException
    /\ loader = None
    /\ resolved = <<>>
    /\ invoked = <<>>

\* a distribution is installed, registering some of its entry points
InstallDistribution(d, eps) ==
    /\ d \notin installed
    /\ installed' = installed \cup {d}
    /\ entry_points' = entry_points \cup eps
    /\ fresh' = FALSE
    /\ UNCHANGED <<queries, invocations, call, matched_loaders, raised, loader,
                   resolved, invoked>>

\* a distribution is removed, with its entry points
UninstallDistribution(d) ==
    /\ d \in installed
    /\ installed' = installed \ {d}
    /\ entry_points' = {ep \in entry_points : ep.dist # d}
    /\ fresh' = FALSE
    /\ UNCHANGED <<queries, invocations, call, matched_loaders, raised, loader,
                   resolved, invoked>>

\* a call get_loader(config_uri, protocol)
GetLoader(config_uri, protocol) ==
    /\ queries < MaxCalls
    /\ invocations < MaxCalls
    /\ IF ~IsValidURI(config_uri)
       THEN /\ call' = [op |-> "get_loader", config_uri |-> Some(config_uri),
                        scheme |-> None, protocol |-> protocol]
            /\ raised' = InvalidURI(config_uri)
            /\ matched_loaders' = <<>>
            /\ loader' = None
            /\ resolved' = <<>>
            /\ invoked' = <<>>
            /\ UNCHANGED <<queries, invocations, fresh>>
       ELSE \E out \in {get_loader(config_uri, protocol, queries + 1, invocations + 1)} :
                /\ call' = [op |-> "get_loader", config_uri |-> Some(config_uri),
                            scheme |-> Some(parse_uri(config_uri).scheme),
                            protocol |-> protocol]
                /\ raised' = out.raised
                /\ matched_loaders' = out.matched
                /\ loader' = out.loader
                /\ resolved' = out.resolved
                /\ invoked' = out.invoked
                /\ queries' = queries + out.queried
                /\ invocations' = invocations + Len(out.invoked)
                /\ fresh' = TRUE
    /\ UNCHANGED <<installed, entry_points>>

\* a call find_loaders(scheme, protocol); scheme is optional
FindLoaders(scheme, protocol) ==
    /\ queries < MaxCalls
    /\ call' = [op |-> "find_loaders", config_uri |-> None, scheme |-> scheme,
                protocol |-> protocol]
    /\ matched_loaders' = find_loaders(scheme, protocol, queries + 1)
    /\ raised' = NoException
    /\ loader' = None
    /\ resolved' = <<>>
    /\ invoked' = <<>>
    /\ queries' = queries + 1
    /\ fresh' = TRUE
    /\ UNCHANGED <<installed, entry_points, invocations>>

\* the caller holds the LoaderInfo objects find_loaders returned or a
\* MultipleLoadersFound carries; those of a get_loader call are its locals
Holds(i) ==
    /\ i \in 1..Len(matched_loaders)
    /\ call.op # "get_loader" \/ raised.type = "MultipleLoadersFound"

\* a call matched_loaders[i].load(config_uri)
Load(i, config_uri) ==
    /\ Holds(i)
    /\ invocations < MaxCalls
    /\ call' = [op |-> "load", config_uri |-> Some(config_uri), scheme |-> None,
                protocol |-> matched_loaders[i].protocol]
    /\ IF ~IsValidURI(config_uri)
       THEN /\ raised' = InvalidURI(config_uri)
            /\ loader' = None
            /\ resolved' = <<>>
            /\ invoked' = <<>>
            /\ UNCHANGED <<matched_loaders, invocations>>
       ELSE \E r \in {load(matched_loaders[i], config_uri, invocations + 1)} :
                /\ raised' = NoException
                /\ matched_loaders' = [matched_loaders EXCEPT ![i] = r.info]
                /\ loader' = Some(r.loader)
                /\ resolved' = r.resolved
                /\ invoked' = r.invoked
                /\ invocations' = invocations + Len(r.invoked)
    /\ UNCHANGED <<installed, entry_points, fresh, queries>>

\* a read of matched_loaders[i].factory
FactoryAccess(i) ==
    /\ Holds(i)
    /\ \E f \in {factory(matched_loaders[i])} :
           /\ matched_loaders' = [matched_loaders EXCEPT ![i] = f.info]
           /\ resolved' = f.resolved
    /\ call' = [op |-> "factory", config_uri |-> None, scheme |-> None,
                protocol |-> matched_loaders[i].protocol]
    /\ raised' = NoException
    /\ loader' = None
    /\ invoked' = <<>>
    /\ UNCHANGED <<installed, entry_points, fresh, queries, invocations>>

OptionalSchemes == {None} \cup {Some(x) : x \in Schemes}

\* Resolution: calls of get_loader and find_loaders in any working set
Next ==
    \/ \E u \in URIs : \E p \in Protocols : GetLoader(u, p)
    \/ \E s \in OptionalSchemes : \E p \in Protocols : FindLoaders(s, p)

Spec == Init /\ [][Next]_vars

\* Repeated calls: get_loader calls with the working set changing in between
CallURIs == { [raw |-> ini \o colon \o foo],
              [raw |-> INI \o plus \o DISTA \o colon \o foo] }

NextCalls ==
    \/ \E d \in Distributions : \E eps \in SUBSET EntryPointsOf(d) :
          InstallDistribution(d, eps)
    \/ \E d \in Distributions : UninstallDistribution(d)
    \/ \E u \in CallURIs : GetLoader(u, None)

SpecCalls == Init /\ [][NextCalls]_vars

\* Uses of LoaderInfo objects: every distribution installed with all its
\* entry points; LoaderInfo objects are obtained and then used
InitInfo ==
    /\ installed = Distributions
    /\ entry_points = UNION {EntryPointsOf(d) : d \in Distributions}
    /\ fresh = TRUE
    /\ queries = 0
    /\ invocations = 0
    /\ call = NoCall
    /\ matched_loaders = <<>>
    /\ raised = NoException
    /\ loader = None
    /\ resolved = <<>>
    /\ invoked = <<>>

LoadURIs == { [raw |-> ini \o colon \o foo],
              parse_uri([raw |-> INI \o colon \o foo \o <<"#">> \o ini]),
              [raw |-> ini] }

NextInfo ==
    \/ \E s \in OptionalSchemes : \E p \in Protocols : FindLoaders(s, p)
    \/ \E u \in CallURIs : GetLoader(u, None)
    \/ \E i \in 1..Len(AllEntryPoints) : \E u \in LoadURIs : Load(i, u)
    \/ \E i \in 1..Len(AllEntryPoints) : FactoryAccess(i)

SpecInfo == InitInfo /\ [][NextInfo]_vars

TypeOK ==
    /\ installed \subseteq Distributions
    /\ \A ep \in entry_points : ep.dist \in installed
    /\ queries \in 0..MaxCalls
    /\ invocations \in 0..MaxCalls

-----------------------------------------------------------------------------
(* Vocabulary of the properties *)

\* the entry points of a LoaderInfo list
EPsOf(infos) == [i \in DOMAIN infos |-> infos[i].entry_point]

\* the last call made a discovery query for a scheme
QueriedScheme ==
    /\ call.op \in {"get_loader", "find_loaders"}
    /\ call.scheme # None

\* the last call made a discovery query
Queried == call.op = "find_loaders" \/ (call.op = "get_loader" /\ call.scheme # None)

PlusAt(s) == {i \in 1..Len(s) : s[i] = "+"}
LastPlus(s) == CHOOSE i \in PlusAt(s) : \A j \in PlusAt(s) : j <= i
\* the text before and after the last '+' of a scheme that holds one
Prefix(s) == SubSeq(s, 1, LastPlus(s) - 1)
Suffix(s) == SubSeq(s, LastPlus(s) + 1, Len(s))

GroupName(protocol) ==
    IF protocol = None THEN "plaster.loader_factory"
    ELSE "plaster.loader_factory" \o "." \o protocol[1]

\* the installed distributions that name names
Named(name) == {d \in installed : Lower(d) = Lower(name)}

\* the registered plugins of the protocol's group named name (case-insensitively),
\* of all distributions, and of distribution d
AllNamed(name, protocol) ==
    SelectSeq(AllEntryPoints,
              LAMBDA ep : /\ ep \in entry_points
                          /\ ep.group = GroupName(protocol)
                          /\ Lower(ep.name) = Lower(name))
OwnNamed(d, name, protocol) ==
    SelectSeq(AllNamed(name, protocol), LAMBDA ep : ep.dist = d)

e_ini_A == AllEntryPoints[1]
e_INI_A == AllEntryPoints[2]
e_ini_B == AllEntryPoints[3]
e_INI_B_wsgi == AllEntryPoints[4]
e_iniplusdistB_C == AllEntryPoints[5]

RawURI(s) == [raw |-> s \o colon \o foo]

\* distA and distB both register ini under the unscoped group, and each
\* registers no other plugin of that name
TwoIni ==
    /\ e_ini_A \in entry_points
    /\ e_ini_B \in entry_points
    /\ e_INI_A \notin entry_points

-----------------------------------------------------------------------------
(* The properties *)

\* C1: whenever the discovery query of get_loader yields more than one
\* plugin, get_loader raises MultipleLoadersFound carrying the requested
\* scheme, the protocol and the full list of matches; no factory is
\* resolved or invoked and no loader is returned.  With distA and distB
\* both registering ini, get_loader("ini:foo") lists exactly the two
\* entries ini+distA and ini+distB.
C1_MultipleNeverPicked ==
    /\ (call.op = "get_loader" /\ Len(matched_loaders) > 1) =>
          /\ \E s \in Schemes :
                /\ call.config_uri = Some(RawURI(s))
                /\ raised = MultipleLoadersFound(s, matched_loaders, call.protocol)
          /\ \A i \in DOMAIN matched_loaders : matched_loaders[i]._factory = None
          /\ loader = None
          /\ resolved = <<>>
          /\ invoked = <<>>
    /\ (call.op = "get_loader" /\ call.config_uri = Some(RawURI(ini))
        /\ call.protocol = None /\ TwoIni) =>
          /\ raised.type = "MultipleLoadersFound"
          /\ Len(raised.loaders) = 2
          /\ raised.loaders[1].scheme = ini \o plus \o distA
          /\ raised.loaders[2].scheme = ini \o plus \o distB

C1_Witness ==
    /\ call.op = "get_loader"
    /\ call.config_uri = Some(RawURI(ini))
    /\ call.protocol = None
    /\ TwoIni
    /\ raised.type = "MultipleLoadersFound"

\* C2: for a scheme name+dist where dist is installed and registers a
\* plugin named name under the queried group, the discovery query returns
\* only (and all of) dist's plugins of that name; a loader get_loader
\* returns is built by dist's factory, and no factory of another
\* distribution is resolved or invoked.  With distA and distB both
\* registering ini, get_loader("ini+distA:foo") returns the loader of
\* distA's factory.
C2_ScopedToDistribution ==
    /\ (QueriedScheme /\ PlusAt(call.scheme[1]) # {}) =>
          \A d \in Named(Suffix(call.scheme[1])) :
             OwnNamed(d, Prefix(call.scheme[1]), call.protocol) # <<>> =>
                /\ EPsOf(matched_loaders) =
                      OwnNamed(d, Prefix(call.scheme[1]), call.protocol)
                /\ \A i \in DOMAIN matched_loaders :
                      matched_loaders[i].entry_point.dist = d
                /\ \A i \in DOMAIN resolved : resolved[i].dist = d
                /\ \A i \in DOMAIN invoked : invoked[i].factory.factory_of.dist = d
                /\ loader # None => loader[1].made_by.factory_of.dist = d
    /\ (call.op = "get_loader" /\ call.config_uri = Some(RawURI(ini \o plus \o distA))
        /\ call.protocol = None /\ TwoIni) =>
          /\ raised = NoException
          /\ loader # None
          /\ loader[1].made_by = entry_point_load(e_ini_A)
          /\ resolved = <<e_ini_A>>
          /\ Len(invoked) = 1
          /\ invoked[1].factory = entry_point_load(e_ini_A)

C2_Witness ==
    /\ call.op = "get_loader"
    /\ call.config_uri = Some(RawURI(ini \o plus \o distA))
    /\ call.protocol = None
    /\ TwoIni
    /\ loader # None
    /\ loader[1].made_by.factory_of.dist = distA

\* C3: whenever the discovery query of get_loader yields no plugin,
\* get_loader raises LoaderNotFound carrying the scheme exactly as it
\* stands in the URI, and the protocol; no factory is resolved or invoked.
C3_NotFoundExactScheme ==
    (call.op = "get_loader" /\ call.scheme # None /\ Len(matched_loaders) = 0) =>
       /\ \E s \in Schemes :
             /\ call.config_uri = Some(RawURI(s))
             /\ raised = LoaderNotFound(s, call.protocol)
       /\ loader = None
       /\ resolved = <<>>
       /\ invoked = <<>>

C3_Witness ==
    /\ call.op = "get_loader"
    /\ call.config_uri = Some(RawURI(INI \o plus \o DISTA))
    /\ raised.type = "LoaderNotFound"
    /\ raised.scheme = INI \o plus \o DISTA

\* C4: a discovery query with protocol p returns only plugins registered
\* under plaster.loader_factory.<p>, a query with protocol None only
\* plugins registered under plaster.loader_factory, and every LoaderInfo
\* returned has the requested protocol.
C4_GroupsDisjoint ==
    Queried =>
       \A i \in DOMAIN matched_loaders :
          /\ matched_loaders[i].entry_point \in entry_points
          /\ matched_loaders[i].protocol = call.protocol
          /\ call.protocol = None =>
                matched_loaders[i].entry_point.group = "plaster.loader_factory"
          /\ call.protocol = Some("wsgi") =>
                matched_loaders[i].entry_point.group = "plaster.loader_factory.wsgi"

C4_Witness ==
    /\ call.op = "find_loaders"
    /\ call.scheme = None
    /\ call.protocol = Some("wsgi")
    /\ EPsOf(matched_loaders) = <<e_INI_B_wsgi>>
    /\ e_ini_A \in entry_points
    /\ e_ini_B \in entry_points

\* C5: two successive calls of the same operation, in the same working
\* set and with the same protocol, whose schemes differ only in letter
\* case, match the same plugins and end the same way: the same exception
\* type, or a loader of the same factory.
C5_CaseInsensitive ==
    [][ ( /\ call.op \in {"get_loader", "find_loaders"}
          /\ call'.op = call.op
          /\ call.scheme # None
          /\ call'.scheme # None
          /\ call'.protocol = call.protocol
          /\ installed' = installed
          /\ entry_points' = entry_points
          /\ Lower(call'.scheme[1]) = Lower(call.scheme[1]) )
        => ( /\ EPsOf(matched_loaders') = EPsOf(matched_loaders)
             /\ raised'.type = raised.type
             /\ (loader = None) = (loader' = None)
             /\ loader # None => loader'[1].made_by = loader[1].made_by ) ]_vars

C5_Witness ==
    /\ call.op = "get_loader"
    /\ call.scheme = Some(INI \o plus \o DISTA)
    /\ queries >= 2
    /\ loader # None
    /\ loader[1].made_by.factory_of.name = INI

\* the plugins a query for scheme s and a protocol is to match: those
\* of the distribution the text after the last '+' names, under the text
\* before it, when there are any; else those of all distributions, under
\* that prefix when the distribution is installed and under the whole
\* scheme when it is not or the scheme has no '+'
ExpectedMatches(s, protocol) ==
    IF PlusAt(s) = {} \/ Named(Suffix(s)) = {}
    THEN AllNamed(s, protocol)
    ELSE LET d == CHOOSE x \in Named(Suffix(s)) : TRUE
         IN  IF OwnNamed(d, Prefix(s), protocol) # <<>>
             THEN OwnNamed(d, Prefix(s), protocol)
             ELSE AllNamed(Prefix(s), protocol)

\* C6: nothing is cached across calls.  Every get_loader call makes its
\* own discovery query against the working set as it is at the call and
\* creates new LoaderInfo objects; a call that succeeds resolves the one
\* matched plugin of that working set and invokes its factory exactly once
\* with the parsed URI, returning the result of that invocation, so each
\* successful call adds one factory invocation.
C6_NothingCached ==
    [][ (installed' = installed /\ entry_points' = entry_points) =>
          /\ call'.op = "get_loader"
          /\ queries' = queries + 1
          /\ fresh'
          /\ \A i \in DOMAIN matched_loaders' :
                matched_loaders'[i].id = [query |-> queries', index |-> i]
          /\ EPsOf(matched_loaders') = ExpectedMatches(call'.scheme[1], call'.protocol)
          /\ (raised'.type = "LoaderNotFound") = (Len(matched_loaders') = 0)
          /\ (raised'.type = "MultipleLoadersFound") = (Len(matched_loaders') > 1)
          /\ (loader' # None) = (Len(matched_loaders') = 1)
          /\ loader' # None =>
                /\ invocations' = invocations + 1
                /\ resolved' = <<matched_loaders'[1].entry_point>>
                /\ matched_loaders'[1].entry_point \in entry_points
                /\ invoked' = <<[factory |-> entry_point_load(matched_loaders'[1].entry_point),
                                 config_uri |-> parse_uri(call'.config_uri[1])]>>
                /\ loader'[1] = [made_by |-> invoked'[1].factory,
                                 config_uri |-> invoked'[1].config_uri,
                                 serial |-> invocations']
          /\ loader' = None => invocations' = invocations ]_vars

\* the second successful call in a row returned the result of the second
\* factory invocation, made by the plugin registered at that call
C6_Witness ==
    /\ call.op = "get_loader"
    /\ call.config_uri = Some(RawURI(ini))
    /\ fresh
    /\ queries = 2
    /\ invocations = 2
    /\ loader # None
    /\ loader[1].serial = 2
    /\ loader[1].made_by = entry_point_load(e_ini_B)
    /\ e_ini_A \notin entry_points

\* C7 as stated: a distribution is looked for only if the scheme holds
\* exactly one '+'; a scheme with no '+' or with two or more is searched
\* among all installed plugins under its whole name.
C7_ExactlyOnePlus ==
    (QueriedScheme /\ Cardinality(PlusAt(call.scheme[1])) # 1) =>
       EPsOf(matched_loaders) = AllNamed(call.scheme[1], call.protocol)

\* C7 amended: a distribution is looked for whenever the scheme holds at
\* least one '+', under the text after the last '+'; only a scheme with no
\* '+', or one whose text after the last '+' names no installed
\* distribution, is searched among all installed plugins under its whole
\* name.
C7_LastPlus ==
    QueriedScheme =>
       EPsOf(matched_loaders) = ExpectedMatches(call.scheme[1], call.protocol)

\* a scheme with two '+' was searched in the distribution its last part
\* names, under the text before the last '+'
C7_Witness ==
    /\ call.op = "get_loader"
    /\ call.scheme = Some(ini \o plus \o distB \o plus \o distC)
    /\ EPsOf(matched_loaders) = <<e_iniplusdistB_C>>
    /\ loader # None
    /\ distB \in installed

\* C8: when the scheme is name+suffix and no installed distribution is
\* named suffix, no error is raised for the unknown distribution and all
\* installed plugins of the group are searched under the whole scheme:
\* plugins named just name do not match, and get_loader raises
\* LoaderNotFound unless a plugin named name+suffix exists.
C8_UnknownDistribution ==
    (QueriedScheme /\ PlusAt(call.scheme[1]) # {}
     /\ Named(Suffix(call.scheme[1])) = {}) =>
       /\ EPsOf(matched_loaders) = AllNamed(call.scheme[1], call.protocol)
       /\ \A i \in DOMAIN matched_loaders :
             Lower(matched_loaders[i].entry_point.name) # Lower(Prefix(call.scheme[1]))
       /\ raised.type \in {"None", "LoaderNotFound", "MultipleLoadersFound"}
       /\ call.op = "find_loaders" => raised = NoException
       /\ (call.op = "get_loader" /\ AllNamed(call.scheme[1], call.protocol) = <<>>) =>
             raised.type = "LoaderNotFound"

C8_Witness ==
    /\ call.op = "get_loader"
    /\ call.scheme = Some(ini \o plus \o distB)
    /\ distB \notin installed
    /\ e_ini_A \in entry_points
    /\ e_iniplusdistB_C \notin entry_points
    /\ raised.type = "LoaderNotFound"

\* C10: when the scheme is name+dist, dist is installed and registers no
\* plugin named name under the queried group, the plugins of all installed
\* distributions of the group are searched under the bare prefix name, and
\* a loader get_loader returns is the one of the single plugin so found.
C10_FallbackBarePrefix ==
    (QueriedScheme /\ PlusAt(call.scheme[1]) # {}) =>
       \A d \in Named(Suffix(call.scheme[1])) :
          OwnNamed(d, Prefix(call.scheme[1]), call.protocol) = <<>> =>
             /\ EPsOf(matched_loaders) = AllNamed(Prefix(call.scheme[1]), call.protocol)
             /\ (call.op = "get_loader"
                 /\ Len(AllNamed(Prefix(call.scheme[1]), call.protocol)) = 1) =>
                   /\ loader # None
                   /\ loader[1].made_by =
                         entry_point_load(AllNamed(Prefix(call.scheme[1]), call.protocol)[1])

\* get_loader("ini+distC:foo") returned the loader of distA's plugin
C10_Witness ==
    /\ call.op = "get_loader"
    /\ call.scheme = Some(ini \o plus \o distC)
    /\ distC \in installed
    /\ loader # None
    /\ loader[1].made_by = entry_point_load(e_ini_A)

\* C9: across the uses of one LoaderInfo the entry point is resolved
\* lazily and at most once.  find_loaders resolves nothing; the first load
\* or factory access resolves the entry point and memoizes the factory;
\* every later load or factory access resolves nothing and uses the
\* memoized factory; each load invokes that factory once with the parsed
\* URI and returns what it produces.
C9_ResolvedOnce ==
    [][ /\ call'.op = "find_loaders" =>
             /\ resolved' = <<>>
             /\ invoked' = <<>>
             /\ \A i \in DOMAIN matched_loaders' :
                   matched_loaders'[i]._factory = None /\ matched_loaders'[i].loads = 0
        /\ call'.op \in {"load", "factory"} =>
             /\ DOMAIN matched_loaders' = DOMAIN matched_loaders
             /\ \A i \in DOMAIN matched_loaders :
                   /\ matched_loaders'[i].id = matched_loaders[i].id
                   /\ matched_loaders'[i].loads <= 1
                   /\ matched_loaders[i]._factory # None =>
                         matched_loaders'[i] = matched_loaders[i]
             /\ \A j \in DOMAIN resolved' :
                   \E i \in DOMAIN matched_loaders :
                      /\ matched_loaders[i]._factory = None
                      /\ matched_loaders[i].loads = 0
                      /\ resolved'[j] = matched_loaders[i].entry_point
                      /\ matched_loaders'[i]._factory =
                            Some(entry_point_load(matched_loaders[i].entry_point))
                      /\ matched_loaders'[i].loads = 1
             /\ Len(resolved') <= 1
             /\ (resolved' = <<>> /\ raised'.type = "None") =>
                   matched_loaders' = matched_loaders
        /\ (call'.op = "load" /\ raised'.type = "None") =>
             /\ invocations' = invocations + 1
             /\ Len(invoked') = 1
             /\ invoked'[1].config_uri = parse_uri(call'.config_uri[1])
             /\ \E i \in DOMAIN matched_loaders' :
                   /\ matched_loaders'[i]._factory = Some(invoked'[1].factory)
                   /\ matched_loaders[i]._factory = None =>
                         resolved' = <<matched_loaders[i].entry_point>>
                   /\ matched_loaders[i]._factory # None => resolved' = <<>>
             /\ loader' = Some([made_by |-> invoked'[1].factory,
                                config_uri |-> invoked'[1].config_uri,
                                serial |-> invocations'])
        /\ call'.op = "factory" =>
             /\ invoked' = <<>>
             /\ invocations' = invocations ]_vars

\* a LoaderInfo resolved once has been loaded again without resolving
C9_Witness ==
    /\ call.op = "load"
    /\ invocations >= 2
    /\ resolved = <<>>
    /\ loader # None
    /\ \E i \in DOMAIN matched_loaders :
          /\ matched_loaders[i].loads = 1
          /\ matched_loaders[i]._factory = Some(loader[1].made_by)

====
